---------------------------- MODULE Spec2Model ----------------------------
(***************************************************************************)
(* A model of the two converters of the repository:                        *)
(*   2html2md.py   HTML -> Markdown (tree fixes, serialisation, text fixes) *)
(*   tomdtopdf.py  Markdown with YAML frontmatter -> PDF                    *)
(* Texts are sequences of one-character strings, so that the regular       *)
(* expressions of the source are modelled by what they match.              *)
(***************************************************************************)
EXTENDS Integers, Sequences, FiniteSets, TLC

VARIABLES
    text0,      \* the Markdown text handed to the text fixes
    hd,         \* results of successive increase_heading_levels applications
    sp,         \* results of successive ensure_space_before_links applications
    href0,      \* the href of a hyperlink node before the link clean-up
    href_out,   \* <<>>, or the one href the clean-up assigned
    imgs0,      \* the image nodes of a tree before the image path rewrite
    imgs_out,   \* <<>>, or the one list of image nodes after it
    nodes0,     \* the text nodes of a tree before the line-break collapsing
    nodes_out,  \* <<>>, or the one list of text nodes after it
    hpc,        \* 2html2md.py: the statement the run is at
    html_doc,   \* the tree BeautifulSoup made of the input
    tree,       \* soup, mutated in place
    md_source,  \* <<>>, or the one tree handed to the Markdown serialisation
    md_serialized,      \* <<>>, or the one text the serialisation returned
    markdown_content,   \* the local variable of convert_html_to_md
    steps,      \* the steps of convert_html_to_md executed so far, in order
    input_read, \* the input file has been read to its end
    out_writes, \* how many times the output file was opened and written
    out_content,\* what the output file holds
    hexit,      \* 2html2md.py: the exit status, -1 while running
    mpc,        \* tomdtopdf.py: the stage main is at
    metadata,   \* post.metadata: a function from the keys present to values
    content,    \* post.content
    stages,     \* the stages of main executed so far, in order
    failed_at,  \* the stage that failed, "none" if none did
    exit_status,\* tomdtopdf.py: the exit status, -1 while running
    pdf_written \* write_pdf has written the PDF file

textVars == <<text0, hd, sp>>
urlVars == <<href0, href_out>>
imgVars == <<imgs0, imgs_out>>
paraVars == <<nodes0, nodes_out>>
htmlVars == <<hpc, html_doc, tree, md_source, md_serialized, markdown_content,
              steps, input_read, out_writes, out_content, hexit>>
mainVars == <<mpc, metadata, content, stages, failed_at, exit_status, pdf_written>>
vars == <<textVars, urlVars, imgVars, paraVars, htmlVars, mainVars>>

\* the parts of the state a specification does not use stay at these values
TextIdle == text0 = <<>> /\ hd = <<>> /\ sp = <<>>
UrlIdle == href0 = <<>> /\ href_out = <<>>
ImgIdle == imgs0 = <<>> /\ imgs_out = <<>>
ParaIdle == nodes0 = <<>> /\ nodes_out = <<>>
EmptyTree == [imgs |-> <<>>, links |-> <<>>, nodes |-> <<>>]
HtmlIdle ==
    /\ hpc = "idle" /\ html_doc = EmptyTree /\ tree = EmptyTree
    /\ md_source = <<>> /\ md_serialized = <<>> /\ markdown_content = <<>>
    /\ steps = <<>> /\ input_read = FALSE
    /\ out_writes = 0 /\ out_content = <<>> /\ hexit = -1
MainIdle ==
    /\ mpc = "idle" /\ metadata = <<>> /\ content = <<>>
    /\ stages = <<>> /\ failed_at = "none" /\ exit_status = -1
    /\ pdf_written = FALSE

(***************************************************************************)
(* Bounds of the model.                                                    *)
(***************************************************************************)
MaxHeadingLen == 7
MaxLinkLen == 4
MaxApply == 2
MaxSrcLen == 3
MaxImgs == 2
MaxTextLen == 3
MaxContentLen == 4

(***************************************************************************)
(* Characters and texts.                                                   *)
(***************************************************************************)
Strings(A, n) == UNION {[1..k -> A] : k \in 0..n}

HeadingAlphabet == {"#", "\n", "a"}
LinkAlphabet == {"a", "!", " ", "[", "\n", "#"}

Last(q) == q[Len(q)]

\* str.split on a one-character separator
RECURSIVE SplitOn(_, _)
SplitOn(s, c) ==
    IF \A i \in 1..Len(s) : s[i] # c THEN <<s>>
    ELSE LET i == CHOOSE j \in 1..Len(s) : s[j] = c /\ \A m \in 1..(j - 1) : s[m] # c
         IN  <<SubSeq(s, 1, i - 1)>> \o SplitOn(SubSeq(s, i + 1, Len(s)), c)

\* Python's \s on the characters of the model
IsSpaceChar(c) == c \in {" ", "\n", "\r", "\t"}

\* Python's \w on the characters of the model
IsWordChar(c) == c \in {"a", "b", "c", "d", "h", "o", "p", "q", "s", "t", "u", "x", "z", "1"}

(***************************************************************************)
(* increase_heading_levels: re.sub(r'^(#{1,6})', '#' + group, MULTILINE)   *)
(***************************************************************************)
MaxHashes == 6

AlwaysLineStart(s, i) == TRUE

\* ^ under re.MULTILINE: the start of the text or just after a line feed
AtLineStart(s, i) == i = 1 \/ s[i - 1] = "\n"

\* the length of the greedy match of #{1,6} at i (0: no match)
RECURSIVE HashRun(_, _, _)
HashRun(s, i, n) ==
    IF n < MaxHashes /\ i + n <= Len(s) /\ s[i + n] = "#"
    THEN HashRun(s, i, n + 1)
    ELSE n

RECURSIVE HeadingSub(_, _)
HeadingSub(s, i) ==
    IF i > Len(s) THEN <<>>
    ELSE LET n == IF AtLineStart(s, i) THEN HashRun(s, i, 0) ELSE 0
         IN  IF n > 0
             THEN <<"#">> \o SubSeq(s, i, i + n - 1) \o HeadingSub(s, i + n)
             ELSE <<s[i]>> \o HeadingSub(s, i + 1)

increase_heading_levels(md_text) == HeadingSub(md_text, 1)

(***************************************************************************)
(* ensure_space_before_links:                                              *)
(*   re.sub(r'(?<!\!)\b(\S)(\[)', r'\1 \2', markdown_content)              *)
(***************************************************************************)
AnyChar(c) == TRUE

\* \S
NonSpace(c) == ~IsSpaceChar(c)

\* \b just before position i: exactly one of the two neighbours is a word character
WordBoundary(s, i) ==
    LET before == i > 1 /\ IsWordChar(s[i - 1])
        after == i <= Len(s) /\ IsWordChar(s[i])
    IN  before # after

\* (?<!\!) just before position i
NotAfterBang(s, i) == i = 1 \/ s[i - 1] # "!"

\* the pattern matches with (\S) at position i and (\[) at i + 1
LinkMatchAt(s, i) ==
    /\ i + 1 <= Len(s)
    /\ NotAfterBang(s, i)
    /\ WordBoundary(s, i)
    /\ NonSpace(s[i])
    /\ s[i + 1] = "["

RECURSIVE LinkSub(_, _)
LinkSub(s, i) ==
    IF i > Len(s) THEN <<>>
    ELSE IF LinkMatchAt(s, i)
         THEN <<s[i], " ", "[">> \o LinkSub(s, i + 2)
         ELSE <<s[i]>> \o LinkSub(s, i + 1)

ensure_space_before_links(md_text) == LinkSub(md_text, 1)

(***************************************************************************)
(* The text fixes applied to bounded texts, each also re-applied to its    *)
(* own output.                                                             *)
(***************************************************************************)
TextInputs == Strings(HeadingAlphabet, MaxHeadingLen) \cup Strings(LinkAlphabet, MaxLinkLen)

TextInit ==
    /\ text0 \in TextInputs
    /\ hd = <<>>
    /\ sp = <<>>
    /\ UrlIdle /\ ImgIdle /\ ParaIdle /\ HtmlIdle /\ MainIdle

ApplyHeading ==
    /\ Len(hd) < MaxApply
    /\ hd' = Append(hd, increase_heading_levels(IF hd = <<>> THEN text0 ELSE Last(hd)))
    /\ UNCHANGED <<text0, sp, urlVars, imgVars, paraVars, htmlVars, mainVars>>

ApplySpace ==
    /\ Len(sp) < MaxApply
    /\ sp' = Append(sp, ensure_space_before_links(IF sp = <<>> THEN text0 ELSE Last(sp)))
    /\ UNCHANGED <<text0, hd, urlVars, imgVars, paraVars, htmlVars, mainVars>>

TextNext == ApplyHeading \/ ApplySpace

SpecText == TextInit /\ [][TextNext]_vars


(***************************************************************************)
(* clean_google_url: re.search(r'q=(https?://[^&]+)', url), the first      *)
(* match's group 1 if there is a match, else the url.                      *)
(***************************************************************************)
\* the literal lit stands in s at position i
LiteralAt(s, i, lit) ==
    /\ i + Len(lit) - 1 <= Len(s)
    /\ \A k \in 1..Len(lit) : s[i + k - 1] = lit[k]

\* the end of the greedy run [^&]* that starts at position i
RECURSIVE RunEnd(_, _)
RunEnd(s, i) == IF i <= Len(s) /\ s[i] # "&" THEN RunEnd(s, i + 1) ELSE i - 1

\* where https?:// ends when it stands at position i, 0 when it does not
SchemeEnd(s, i) ==
    IF LiteralAt(s, i, <<"h", "t", "t", "p", "s", ":", "/", "/">>) THEN i + 7
    ELSE IF LiteralAt(s, i, <<"h", "t", "t", "p", ":", "/", "/">>) THEN i + 6
    ELSE 0

\* the pattern matches at position i
UrlMatchAt(s, i) ==
    /\ LiteralAt(s, i, <<"q", "=">>)
    /\ SchemeEnd(s, i + 2) > 0
    /\ RunEnd(s, SchemeEnd(s, i + 2) + 1) > SchemeEnd(s, i + 2)

clean_google_url(url) ==
    LET M == {i \in 1..Len(url) : UrlMatchAt(url, i)}
    IN  IF M = {} THEN url
        ELSE LET i == CHOOSE j \in M : \A m \in M : j <= m
             IN  SubSeq(url, i + 2, RunEnd(url, SchemeEnd(url, i + 2) + 1))

(***************************************************************************)
(* The link clean-up of convert_html_to_md applied to one href.            *)
(***************************************************************************)
UrlPrefixes ==
    { <<"u", "?">>,
      <<"u", "?", "a", "=", "1", "&">>,
      <<"u", "?", "s">> }
UrlKeys == { <<"q", "=">>, <<"r", "=">>, <<>> }
UrlSchemes == { <<"h", "t", "t", "p">>, <<"h", "t", "t", "p", "s">>, <<"f", "t", "p">> }
UrlSeparators == { <<":", "/", "/">>, <<":", "/">> }
UrlRests == { <<>>, <<"x">>, <<"x", "/", "%", "2", "0">> }
UrlSuffixes ==
    { <<>>,
      <<"&", "o", "=", "1">>,
      <<"&", "q", "=", "h", "t", "t", "p", ":", "/", "/", "z">> }

UrlInputs ==
    { p \o k \o c \o e \o r \o x :
        p \in UrlPrefixes, k \in UrlKeys, c \in UrlSchemes,
        e \in UrlSeparators, r \in UrlRests, x \in UrlSuffixes }

UrlInit ==
    /\ href0 \in UrlInputs
    /\ href_out = <<>>
    /\ TextIdle /\ ImgIdle /\ ParaIdle /\ HtmlIdle /\ MainIdle

\* a['href'] = clean_google_url(a['href'])
CleanLink ==
    /\ href_out = <<>>
    /\ href_out' = <<clean_google_url(href0)>>
    /\ UNCHANGED <<href0, textVars, imgVars, paraVars, htmlVars, mainVars>>

UrlNext == CleanLink

SpecUrl == UrlInit /\ [][UrlNext]_vars

(***************************************************************************)
(* The image path rewrite of convert_html_to_md:                           *)
(*   src = img.get('src')                                                  *)
(*   if src: img['src'] = os.path.join('images', os.path.basename(src))    *)
(* An image node is [has_src, src]; a node without the attribute has       *)
(* has_src = FALSE (img.get gives None).                                   *)
(***************************************************************************)
PathAlphabet == {"/", "c"}

NoSrc == [has_src |-> FALSE, src |-> <<>>]
ImgNodes == {NoSrc} \cup {[has_src |-> TRUE, src |-> v] : v \in Strings(PathAlphabet, MaxSrcLen)}

images_dir == <<"i", "m", "a", "g", "e", "s">>

\* the part after the first '/'
basename_after_first_slash(path) ==
    IF \A i \in 1..Len(path) : path[i] # "/" THEN path
    ELSE LET i == CHOOSE j \in 1..Len(path) : path[j] = "/" /\ \A m \in 1..(j - 1) : path[m] # "/"
         IN  SubSeq(path, i + 1, Len(path))

\* posixpath.basename: the part after the last '/'
basename(path) ==
    LET slashes == {i \in 1..Len(path) : path[i] = "/"}
        i == IF slashes = {} THEN 0 ELSE CHOOSE j \in slashes : \A m \in slashes : m <= j
    IN  SubSeq(path, i + 1, Len(path))

\* posixpath.join of two parts
path_join(a, b) ==
    IF b # <<>> /\ Head(b) = "/" THEN b
    ELSE IF a = <<>> \/ Last(a) = "/" THEN a \o b
    ELSE a \o <<"/">> \o b

\* the body of the loop over soup.find_all('img')
ProcessImg(img) ==
    IF img.has_src /\ img.src # <<>>
    THEN [has_src |-> TRUE, src |-> path_join(images_dir, basename(img.src))]
    ELSE img

ProcessImages(imgs) == [i \in 1..Len(imgs) |-> ProcessImg(imgs[i])]

ImgInit ==
    /\ imgs0 \in UNION {[1..k -> ImgNodes] : k \in 0..MaxImgs}
    /\ imgs_out = <<>>
    /\ TextIdle /\ UrlIdle /\ ParaIdle /\ HtmlIdle /\ MainIdle

RewriteImages ==
    /\ imgs_out = <<>>
    /\ imgs_out' = <<ProcessImages(imgs0)>>
    /\ UNCHANGED <<imgs0, textVars, urlVars, paraVars, htmlVars, mainVars>>

ImgNext == RewriteImages

SpecImg == ImgInit /\ [][ImgNext]_vars

(***************************************************************************)
(* remove_line_breaks_within_paragraphs.  A text node is [path, text],     *)
(* path the tags of its ancestors from the outermost one; the text nodes   *)
(* p.find_all(string=True) visits for the p of soup.find_all('p') are      *)
(* those with a p among their ancestors.                                   *)
(***************************************************************************)
TextAlphabet == {"a", "\n", "\r"}

NodePaths == { <<"p">>, <<"h1">>, <<"li">>, <<"pre">>, <<"p", "b">> }

TextNodes == {[path |-> a, text |-> t] : a \in NodePaths, t \in Strings(TextAlphabet, MaxTextLen)}

InParagraph(node) == \E i \in 1..Len(node.path) : node.path[i] = "p"

\* str.replace of one character by another
ReplaceChar(t, old, new) == [i \in 1..Len(t) |-> IF t[i] = old THEN new ELSE t[i]]

replace_line_feeds_only(t) == ReplaceChar(t, "\n", " ")

\* text_node.replace('\n', ' ').replace('\r', ' ')
collapse_line_breaks(t) == ReplaceChar(ReplaceChar(t, "\n", " "), "\r", " ")

remove_line_breaks_within_paragraphs(nodes) ==
    [i \in 1..Len(nodes) |->
        IF InParagraph(nodes[i])
        THEN [nodes[i] EXCEPT !.text = collapse_line_breaks(nodes[i].text)]
        ELSE nodes[i]]

ParaInit ==
    /\ nodes0 \in {<<a, b>> : a \in TextNodes, b \in TextNodes}
    /\ nodes_out = <<>>
    /\ TextIdle /\ UrlIdle /\ ImgIdle /\ HtmlIdle /\ MainIdle

CollapseParagraphs ==
    /\ nodes_out = <<>>
    /\ nodes_out' = <<remove_line_breaks_within_paragraphs(nodes0)>>
    /\ UNCHANGED <<nodes0, textVars, urlVars, imgVars, htmlVars, mainVars>>

ParaNext == CollapseParagraphs

SpecPara == ParaInit /\ [][ParaNext]_vars

(***************************************************************************)
(* 2html2md.py: the run of the script, statement by statement.             *)
(* A tree is [imgs, links, nodes]: its image nodes, its hyperlink nodes    *)
(* ([has_href, href]) and its text nodes.  BeautifulSoup and markdownify   *)
(* are outside the repository: the parse gives one of SampleDocs, the      *)
(* serialisation one of SampleMarkdown.                                    *)
(***************************************************************************)
NoHref == [has_href |-> FALSE, href |-> <<>>]

SampleImgs ==
    { <<>>, <<NoSrc>>, <<[has_src |-> TRUE, src |-> <<"/", "c">>]>> }
SampleLinks ==
    { <<>>, <<NoHref>>,
      <<[has_href |-> TRUE,
         href |-> <<"u", "?", "q", "=", "h", "t", "t", "p", ":", "/", "/", "x", "&", "o", "=", "1">>]>> }
SampleNodes ==
    { <<>>,
      <<[path |-> <<"p">>, text |-> <<"a", "\n", "a">>]>>,
      <<[path |-> <<"h1">>, text |-> <<"a", "\n", "a">>]>> }
SampleDocs ==
    {[imgs |-> i, links |-> l, nodes |-> n] : i \in SampleImgs, l \in SampleLinks, n \in SampleNodes}
SampleMarkdown ==
    { <<>>, <<"#", "a">>, <<"a", "[">>, <<"#", "a", "\n", "a", "[">> }

\* for a in soup.find_all('a', href=True): a['href'] = clean_google_url(a['href'])
ProcessLinks(links) ==
    [i \in 1..Len(links) |->
        IF links[i].has_href
        THEN [links[i] EXCEPT !.href = clean_google_url(links[i].href)]
        ELSE links[i]]

HtmlInit ==
    /\ hpc = "argv" /\ html_doc = EmptyTree /\ tree = EmptyTree
    /\ md_source = <<>> /\ md_serialized = <<>> /\ markdown_content = <<>>
    /\ steps = <<>> /\ input_read = FALSE
    /\ out_writes = 0 /\ out_content = <<>> /\ hexit = -1
    /\ TextIdle /\ UrlIdle /\ ImgIdle /\ ParaIdle /\ MainIdle

\* if len(sys.argv) != 2: print usage; sys.exit(1)
CheckArgv ==
    /\ hpc = "argv"
    /\ \E one_argument \in BOOLEAN :
          IF one_argument
          THEN hpc' = "read" /\ hexit' = hexit
          ELSE hpc' = "exit" /\ hexit' = 1
    /\ UNCHANGED <<html_doc, tree, md_source, md_serialized, markdown_content, steps,
                   input_read, out_writes, out_content>>
    /\ UNCHANGED <<textVars, urlVars, imgVars, paraVars, mainVars>>

\* with open(input_html_file, 'r') as f: html_content = f.read()
\* (an error of open or read is not caught: the interpreter exits with 1)
ReadInput ==
    /\ hpc = "read"
    /\ \/ /\ \E d \in SampleDocs : html_doc' = d
          /\ input_read' = TRUE
          /\ hpc' = "parse"
          /\ hexit' = hexit
       \/ /\ hpc' = "exit"
          /\ hexit' = 1
          /\ UNCHANGED <<html_doc, input_read>>
    /\ UNCHANGED <<tree, md_source, md_serialized, markdown_content, steps,
                   out_writes, out_content>>
    /\ UNCHANGED <<textVars, urlVars, imgVars, paraVars, mainVars>>

\* soup = BeautifulSoup(html_content, 'html.parser')
ParseHtml ==
    /\ hpc = "parse"
    /\ tree' = html_doc
    /\ hpc' = "images"
    /\ UNCHANGED <<html_doc, md_source, md_serialized, markdown_content, steps,
                   input_read, out_writes, out_content, hexit>>
    /\ UNCHANGED <<textVars, urlVars, imgVars, paraVars, mainVars>>

StepImages ==
    /\ hpc = "images"
    /\ tree' = [tree EXCEPT !.imgs = ProcessImages(@)]
    /\ steps' = Append(steps, "images")
    /\ hpc' = "links"
    /\ UNCHANGED <<html_doc, md_source, md_serialized, markdown_content,
                   input_read, out_writes, out_content, hexit>>
    /\ UNCHANGED <<textVars, urlVars, imgVars, paraVars, mainVars>>

StepLinks ==
    /\ hpc = "links"
    /\ tree' = [tree EXCEPT !.links = ProcessLinks(@)]
    /\ steps' = Append(steps, "links")
    /\ hpc' = "paragraphs"
    /\ UNCHANGED <<html_doc, md_source, md_serialized, markdown_content,
                   input_read, out_writes, out_content, hexit>>
    /\ UNCHANGED <<textVars, urlVars, imgVars, paraVars, mainVars>>

StepParagraphs ==
    /\ hpc = "paragraphs"
    /\ tree' = [tree EXCEPT !.nodes = remove_line_breaks_within_paragraphs(@)]
    /\ steps' = Append(steps, "paragraphs")
    /\ hpc' = "serialize"
    /\ UNCHANGED <<html_doc, md_source, md_serialized, markdown_content,
                   input_read, out_writes, out_content, hexit>>
    /\ UNCHANGED <<textVars, urlVars, imgVars, paraVars, mainVars>>

\* markdown_content = md(str(soup), heading_style="ATX")
StepSerialize ==
    /\ hpc = "serialize"
    /\ md_source' = <<tree>>
    /\ \E m \in SampleMarkdown :
          /\ md_serialized' = <<m>>
          /\ markdown_content' = m
    /\ steps' = Append(steps, "serialize")
    /\ hpc' = "headings"
    /\ UNCHANGED <<html_doc, tree, input_read, out_writes, out_content, hexit>>
    /\ UNCHANGED <<textVars, urlVars, imgVars, paraVars, mainVars>>

StepHeadings ==
    /\ hpc = "headings"
    /\ markdown_content' = increase_heading_levels(markdown_content)
    /\ steps' = Append(steps, "headings")
    /\ hpc' = "spaces"
    /\ UNCHANGED <<html_doc, tree, md_source, md_serialized,
                   input_read, out_writes, out_content, hexit>>
    /\ UNCHANGED <<textVars, urlVars, imgVars, paraVars, mainVars>>

StepSpaces ==
    /\ hpc = "spaces"
    /\ markdown_content' = ensure_space_before_links(markdown_content)
    /\ steps' = Append(steps, "spaces")
    /\ hpc' = "write"
    /\ UNCHANGED <<html_doc, tree, md_source, md_serialized,
                   input_read, out_writes, out_content, hexit>>
    /\ UNCHANGED <<textVars, urlVars, imgVars, paraVars, mainVars>>

\* the output written before the space insertion
WriteOutputEarly ==
    /\ hpc = "spaces"
    /\ out_writes' = out_writes + 1
    /\ out_content' = markdown_content
    /\ hpc' = "print"
    /\ UNCHANGED <<html_doc, tree, md_source, md_serialized, markdown_content, steps,
                   input_read, hexit>>
    /\ UNCHANGED <<textVars, urlVars, imgVars, paraVars, mainVars>>

\* with open(output_md_file, 'w') as f: f.write(markdown_content)
\* (an error of open is not caught: the interpreter exits with 1)
WriteOutput ==
    /\ hpc = "write"
    /\ \/ /\ out_writes' = out_writes + 1
          /\ out_content' = markdown_content
          /\ hpc' = "print"
          /\ hexit' = hexit
       \/ /\ hpc' = "exit"
          /\ hexit' = 1
          /\ UNCHANGED <<out_writes, out_content>>
    /\ UNCHANGED <<html_doc, tree, md_source, md_serialized, markdown_content, steps,
                   input_read>>
    /\ UNCHANGED <<textVars, urlVars, imgVars, paraVars, mainVars>>

\* print(f"Markdown file created at: {output_md_file}")
PrintCreated ==
    /\ hpc = "print"
    /\ hpc' = "done"
    /\ hexit' = 0
    /\ UNCHANGED <<html_doc, tree, md_source, md_serialized, markdown_content, steps,
                   input_read, out_writes, out_content>>
    /\ UNCHANGED <<textVars, urlVars, imgVars, paraVars, mainVars>>

HtmlNext ==
    \/ CheckArgv \/ ReadInput \/ ParseHtml
    \/ StepImages \/ StepLinks \/ StepParagraphs
    \/ StepSerialize \/ StepHeadings \/ StepSpaces
    \/ WriteOutput \/ PrintCreated

SpecHtml == HtmlInit /\ [][HtmlNext]_vars

(***************************************************************************)
(* tomdtopdf.py: main, stage by stage.  The metadata is a function from    *)
(* the keys of the YAML mapping to values; a value is a string or a number *)
(* (YAML reads `version: 1.0` as a number).  frontmatter, Markdown,     *)
(* Jinja2 and WeasyPrint are outside the repository: each either returns   *)
(* or raises.                                                              *)
(***************************************************************************)
required_fields == <<"title", "version", "date_modified", "pdf_filename">>

FieldNames == {required_fields[i] : i \in 1..Len(required_fields)}

StrValue(v) == [type |-> "str", str |-> v, num |-> 0]
IntValue(n) == [type |-> "int", str |-> <<>>, num |-> n]

YamlValues == {StrValue(<<>>), StrValue(<<"v">>), IntValue(0), IntValue(1)}

\* the values a key is given in the inputs: text, and for the version also numbers
FieldValues(field) ==
    IF field = "version" THEN YamlValues ELSE {StrValue(<<>>), StrValue(<<"v">>)}

Metadatas ==
    UNION { {md \in [present -> YamlValues] : \A f \in present : md[f] \in FieldValues(f)} :
              present \in SUBSET FieldNames }

ContentAlphabet == {"#", " ", "a", "\n"}
Contents == Strings(ContentAlphabet, MaxContentLen)

\* Python's truth value of a metadata value
Truthy(v) == IF v.type = "str" THEN v.str # <<>> ELSE v.num # 0

\* field not in metadata or not metadata[field]
FieldFails(md, field) == field \notin DOMAIN md \/ ~Truthy(md[field])

\* field_check reaches sys.exit(1)
FieldCheckExits(md) == \E i \in 1..Len(required_fields) : FieldFails(md, required_fields[i])

\* the line as it is
NoStrip(line) == line

\* str.strip, as far as startswith looks: the leading whitespace removed
RECURSIVE LStrip(_)
LStrip(line) ==
    IF line # <<>> /\ IsSpaceChar(Head(line)) THEN LStrip(Tail(line)) ELSE line

\* line.strip().startswith("#")
IsTitleLine(line) == LET t == LStrip(line) IN t # <<>> /\ Head(t) = "#"

\* content_check reaches sys.exit(1)
ContentCheckExits(c) ==
    \/ c = <<>>
    \/ ~\E i \in 1..Len(SplitOn(c, "\n")) : IsTitleLine(SplitOn(c, "\n")[i])

MainInit ==
    /\ mpc = "arguments" /\ metadata = <<>> /\ content = <<>>
    /\ stages = <<>> /\ failed_at = "none" /\ exit_status = -1
    /\ pdf_written = FALSE
    /\ TextIdle /\ UrlIdle /\ ImgIdle /\ ParaIdle /\ HtmlIdle

\* args = arguments(): argparse exits with 2 on a wrong command line
Arguments ==
    /\ mpc = "arguments"
    /\ \E parsed \in BOOLEAN :
          IF parsed
          THEN mpc' = "load_doc" /\ UNCHANGED <<failed_at, exit_status>>
          ELSE mpc' = "exit" /\ failed_at' = "arguments" /\ exit_status' = 2
    /\ UNCHANGED <<metadata, content, stages, pdf_written>>
    /\ UNCHANGED <<textVars, urlVars, imgVars, paraVars, htmlVars>>

\* metadata, content = load_doc(args)
LoadDoc ==
    /\ mpc = "load_doc"
    /\ stages' = Append(stages, "load_doc")
    /\ \/ /\ \E md \in Metadatas, c \in Contents :
                metadata' = md /\ content' = c
          /\ mpc' = "field_check"
          /\ UNCHANGED <<failed_at, exit_status>>
       \/ /\ mpc' = "exit"
          /\ failed_at' = "load_doc"
          /\ exit_status' = 1
          /\ UNCHANGED <<metadata, content>>
    /\ UNCHANGED pdf_written
    /\ UNCHANGED <<textVars, urlVars, imgVars, paraVars, htmlVars>>

\* field_check that prints and goes on
FieldCheckWarns ==
    /\ mpc = "field_check"
    /\ stages' = Append(stages, "field_check")
    /\ mpc' = "content_check"
    /\ UNCHANGED <<metadata, content, failed_at, exit_status, pdf_written>>
    /\ UNCHANGED <<textVars, urlVars, imgVars, paraVars, htmlVars>>

\* field_check(metadata)
FieldCheck ==
    /\ mpc = "field_check"
    /\ stages' = Append(stages, "field_check")
    /\ IF FieldCheckExits(metadata)
       THEN mpc' = "exit" /\ failed_at' = "field_check" /\ exit_status' = 1
       ELSE mpc' = "content_check" /\ UNCHANGED <<failed_at, exit_status>>
    /\ UNCHANGED <<metadata, content, pdf_written>>
    /\ UNCHANGED <<textVars, urlVars, imgVars, paraVars, htmlVars>>

\* content_check(content)
ContentCheck ==
    /\ mpc = "content_check"
    /\ stages' = Append(stages, "content_check")
    /\ IF ContentCheckExits(content)
       THEN mpc' = "exit" /\ failed_at' = "content_check" /\ exit_status' = 1
       ELSE mpc' = "md2html" /\ UNCHANGED <<failed_at, exit_status>>
    /\ UNCHANGED <<metadata, content, pdf_written>>
    /\ UNCHANGED <<textVars, urlVars, imgVars, paraVars, htmlVars>>

\* html, template_dir = md2html(metadata, content, args.template_location)
Md2Html ==
    /\ mpc = "md2html"
    /\ stages' = Append(stages, "md2html")
    /\ \E rendered \in BOOLEAN :
          IF rendered
          THEN mpc' = "html2pdf" /\ UNCHANGED <<failed_at, exit_status>>
          ELSE mpc' = "exit" /\ failed_at' = "md2html" /\ exit_status' = 1
    /\ UNCHANGED <<metadata, content, pdf_written>>
    /\ UNCHANGED <<textVars, urlVars, imgVars, paraVars, htmlVars>>

\* html2pdf(metadata, html); main returns after it
Html2Pdf ==
    /\ mpc = "html2pdf"
    /\ stages' = Append(stages, "html2pdf")
    /\ \E written \in BOOLEAN :
          IF written /\ ~FieldFails(metadata, "pdf_filename")
          THEN /\ pdf_written' = TRUE
               /\ mpc' = "done"
               /\ exit_status' = 0
               /\ UNCHANGED failed_at
          ELSE /\ mpc' = "exit"
               /\ failed_at' = "html2pdf"
               /\ exit_status' = 1
               /\ UNCHANGED pdf_written
    /\ UNCHANGED <<metadata, content>>
    /\ UNCHANGED <<textVars, urlVars, imgVars, paraVars, htmlVars>>

MainNext ==
    \/ Arguments \/ LoadDoc \/ FieldCheck \/ ContentCheck \/ Md2Html \/ Html2Pdf

SpecMain == MainInit /\ [][MainNext]_vars

(***************************************************************************)
(* Lines of a text, for stating the claims about headings.                 *)
(***************************************************************************)
SplitLines(s) == SplitOn(s, "\n")

\* the number of '#' a line starts with
RECURSIVE HashPrefix(_)
HashPrefix(line) ==
    IF line # <<>> /\ Head(line) = "#" THEN 1 + HashPrefix(Tail(line)) ELSE 0

Hashes(n) == [i \in 1..n |-> "#"]

HasHeadingLine(s) == \E i \in 1..Len(SplitLines(s)) : HashPrefix(SplitLines(s)[i]) > 0

Indices(s) == [i \in 1..Len(s) |-> i]

\* the positions of '[' in a text, in order
BracketPositions(s) == SelectSeq(Indices(s), LAMBDA i : s[i] = "[")

\* the number of spaces immediately before position j
RECURSIVE SpacesBefore(_, _)
SpacesBefore(s, j) ==
    IF j > 1 /\ s[j - 1] = " " THEN 1 + SpacesBefore(s, j - 1) ELSE 0

\* the text the claim C1 describes: one space before every '[' that follows a
\* non-whitespace character other than '!', nothing else changed
RECURSIVE ClaimSpaced(_, _)
ClaimSpaced(s, j) ==
    IF j > Len(s) THEN <<>>
    ELSE (IF s[j] = "[" /\ j > 1 /\ ~IsSpaceChar(s[j - 1]) /\ s[j - 1] # "!"
          THEN <<" ", "[">> ELSE <<s[j]>>) \o ClaimSpaced(s, j + 1)

(***************************************************************************)
(* C1 (as claimed): ensure_space_before_links inserts exactly one space    *)
(* wherever a non-whitespace character other than '!' is immediately       *)
(* followed by '[', inserts none where '[' follows whitespace, the start   *)
(* of the text or '!', and changes nothing else.                           *)
(***************************************************************************)
C1_SpaceBeforeEveryLink ==
    Len(sp) >= 1 => sp[1] = ClaimSpaced(text0, 1)

(***************************************************************************)
(* The query parameters of a URL, for stating the claim about links.       *)
(***************************************************************************)
QueryParams(url) ==
    IF \A i \in 1..Len(url) : url[i] # "?" THEN <<>>
    ELSE LET i == CHOOSE j \in 1..Len(url) : url[j] = "?" /\ \A m \in 1..(j - 1) : url[m] # "?"
         IN  SplitOn(SubSeq(url, i + 1, Len(url)), "&")

\* a parameter named q whose value is <scheme>://<rest>, rest not empty
IsQWithUrl(param) ==
    /\ LiteralAt(param, 1, <<"q", "=">>)
    /\ SchemeEnd(param, 3) > 0
    /\ Len(param) > SchemeEnd(param, 3)

\* the href the claim C2 describes
ClaimCleaned(url) ==
    LET ps == QueryParams(url)
        good == {k \in 1..Len(ps) : IsQWithUrl(ps[k])}
    IN  IF good = {} THEN url
        ELSE LET k == CHOOSE j \in good : \A m \in good : j <= m
             IN  SubSeq(ps[k], 3, Len(ps[k]))

(***************************************************************************)
(* C2 (as claimed): the link clean-up replaces the href by the value of    *)
(* its query parameter named q when that value is a URL (verbatim, up to   *)
(* the next '&'), and leaves an href without such a parameter named q      *)
(* unchanged.                                                              *)
(***************************************************************************)
C2_LinkCleanup ==
    Len(href_out) >= 1 => href_out[1] = ClaimCleaned(href0)

\* the last '/'-delimited segment of a path
LastSegment(path) == Last(SplitOn(path, "/"))

(***************************************************************************)
(* C3 (as claimed): every image node that has a src attribute, whatever    *)
(* its value, gets src = 'images/<last segment of the old src>'; a node    *)
(* without the attribute is unchanged.                                     *)
(***************************************************************************)
C3_EverySrcRewritten ==
    Len(imgs_out) >= 1 =>
        /\ Len(imgs_out[1]) = Len(imgs0)
        /\ \A i \in 1..Len(imgs0) :
              IF imgs0[i].has_src
              THEN /\ imgs_out[1][i].has_src
                   /\ imgs_out[1][i].src = images_dir \o <<"/">> \o LastSegment(imgs0[i].src)
              ELSE imgs_out[1][i] = imgs0[i]

(***************************************************************************)
(* C3 (amended): every image node with a non-empty src gets                *)
(* src = 'images/<last segment of the old src>'; a node without src, or    *)
(* with an empty src, is unchanged.                                        *)
(***************************************************************************)
C3_NonEmptySrcRewritten ==
    Len(imgs_out) >= 1 =>
        /\ Len(imgs_out[1]) = Len(imgs0)
        /\ \A i \in 1..Len(imgs0) :
              IF imgs0[i].has_src /\ imgs0[i].src # <<>>
              THEN /\ imgs_out[1][i].has_src
                   /\ imgs_out[1][i].src = images_dir \o <<"/">> \o LastSegment(imgs0[i].src)
              ELSE imgs_out[1][i] = imgs0[i]

C3_Witness ==
    /\ imgs0 = << [has_src |-> TRUE, src |-> <<"/", "c", "c">>], NoSrc >>
    /\ imgs_out = << << [has_src |-> TRUE, src |-> images_dir \o <<"/", "c", "c">>], NoSrc >> >>

(***************************************************************************)
(* C5: in every text node inside a paragraph each line feed and each       *)
(* carriage return is replaced by one space, every other character and the *)
(* length kept; a text node outside every paragraph is unchanged.          *)
(***************************************************************************)
C5_ParagraphLineBreaks ==
    Len(nodes_out) >= 1 =>
        /\ Len(nodes_out[1]) = Len(nodes0)
        /\ \A i \in 1..Len(nodes0) :
              LET old == nodes0[i]
                  new == nodes_out[1][i]
              IN  IF \E k \in 1..Len(old.path) : old.path[k] = "p"
                  THEN /\ new.path = old.path
                       /\ Len(new.text) = Len(old.text)
                       /\ \A k \in 1..Len(old.text) :
                             new.text[k] = IF old.text[k] \in {"\n", "\r"} THEN " " ELSE old.text[k]
                  ELSE new = old

C5_Witness ==
    /\ nodes0 = << [path |-> <<"p">>, text |-> <<"a", "\r", "\n">>],
                   [path |-> <<"pre">>, text |-> <<"a", "\n", "a">>] >>
    /\ nodes_out = << << [path |-> <<"p">>, text |-> <<"a", " ", " ">>],
                         [path |-> <<"pre">>, text |-> <<"a", "\n", "a">>] >> >>

(***************************************************************************)
(* C4: one application of increase_heading_levels prepends exactly one '#' *)
(* to every line that starts with 1 to 6 '#' (a 6-'#' line becomes a       *)
(* 7-'#' line) and leaves every line that does not start with '#' as it    *)
(* is, also when it holds '#' elsewhere; the lines stay the same in number.*)
(***************************************************************************)
C4_HeadingPromotion ==
    Len(hd) >= 1 =>
        LET old == SplitLines(text0)
            new == SplitLines(hd[1])
        IN  /\ Len(new) = Len(old)
            /\ \A i \in 1..Len(old) :
                  /\ HashPrefix(old[i]) \in 1..MaxHashes => new[i] = <<"#">> \o old[i]
                  /\ HashPrefix(old[i]) = 0 => new[i] = old[i]

C4_Witness ==
    /\ text0 = <<"#", "a", "\n", "a", "#">>
    /\ Len(hd) >= 1
    /\ hd[1] = <<"#", "#", "a", "\n", "a", "#">>

IsPrefix(a, b) == Len(a) <= Len(b) /\ a = SubSeq(b, 1, Len(a))

\* a value the claim C6 calls empty
IsEmptyValue(v) == v.type = "str" /\ v.str = <<>>

\* a required field of the metadata is absent or empty
SomeFieldAbsentOrEmpty(md) ==
    \E f \in {"title", "version", "date_modified", "pdf_filename"} :
        f \notin DOMAIN md \/ IsEmptyValue(md[f])

FieldCheckRan == Len(stages) >= 2 /\ stages[2] = "field_check"
ContentCheckRan == Len(stages) >= 3 /\ stages[3] = "content_check"

(***************************************************************************)
(* C6 (as claimed): once field_check has run, the process has exited there *)
(* with status 1 if a required field is absent or empty, and has gone on   *)
(* (no exit, metadata unchanged, nothing rendered before it) if all four   *)
(* are present and non-empty.                                              *)
(***************************************************************************)
C6_FieldCheck ==
    FieldCheckRan =>
        IF SomeFieldAbsentOrEmpty(metadata)
        THEN mpc = "exit" /\ exit_status = 1 /\ failed_at = "field_check"
             /\ Len(stages) = 2 /\ ~pdf_written
        ELSE failed_at # "field_check"

\* a line whose first non-blank character is '#'
IsHeadingLine(line) ==
    \E k \in 1..Len(line) :
        /\ line[k] = "#"
        /\ \A m \in 1..(k - 1) : line[m] \in {" ", "\t", "\r"}

HasHeadingLineIn(c) ==
    \E a \in 0..Len(c), b \in 0..Len(c) :
        /\ a < b
        /\ a = 0 \/ c[a] = "\n"
        /\ \A m \in (a + 1)..b : c[m] # "\n"
        /\ IsHeadingLine(SubSeq(c, a + 1, b))

(***************************************************************************)
(* C7: once content_check has run, the process has exited there with       *)
(* status 1, before any rendering, if the content is empty or has no line  *)
(* whose first non-blank character is '#', and has gone on if the content  *)
(* has such a line.                                                        *)
(***************************************************************************)
C7_ContentCheck ==
    ContentCheckRan =>
        IF content = <<>> \/ ~HasHeadingLineIn(content)
        THEN mpc = "exit" /\ exit_status = 1 /\ failed_at = "content_check"
             /\ Len(stages) = 3 /\ ~pdf_written
        ELSE failed_at # "content_check"

C7_Witness ==
    /\ content = <<"a", "\n", " ", "#">>
    /\ ContentCheckRan
    /\ mpc = "md2html"

\* the stages of main in the order the claim C8 gives
ClaimedStages == <<"load_doc", "field_check", "content_check", "md2html", "html2pdf">>

(***************************************************************************)
(* C8: the stages of main run in the order load_doc, field_check,          *)
(* content_check, md2html, html2pdf, each at most once; the PDF is written *)
(* only after all five, none of them failed; a failure ends the run at the *)
(* failing stage with a nonzero exit status and nothing written; a missing *)
(* or empty required field or a content without heading line stops the run *)
(* at its check.                                                           *)
(***************************************************************************)
C8_MainStages ==
    /\ IsPrefix(stages, ClaimedStages)
    /\ pdf_written =>
          /\ stages = ClaimedStages
          /\ failed_at = "none"
          /\ exit_status = 0
          /\ ~SomeFieldAbsentOrEmpty(metadata)
          /\ HasHeadingLineIn(content)
    /\ failed_at # "none" =>
          /\ mpc = "exit"
          /\ exit_status > 0
          /\ ~pdf_written
          /\ failed_at = "arguments" => stages = <<>>
          /\ failed_at # "arguments" => Last(stages) = failed_at
    /\ failed_at = "none" <=> mpc # "exit"
    /\ exit_status = 0 <=> mpc = "done"
    /\ mpc = "done" => pdf_written

C8_Witness ==
    /\ mpc = "exit"
    /\ failed_at = "md2html"
    /\ stages = <<"load_doc", "field_check", "content_check", "md2html">>
    /\ exit_status = 1
    /\ ~pdf_written

\* the six steps in the order the claim C9 gives
ClaimedOrder == <<"images", "links", "paragraphs", "serialize", "headings", "spaces">>

(***************************************************************************)
(* C9: in every run of the HTML-to-Markdown script the steps executed are  *)
(* an initial part of: image rewrite, link clean-up, line-break            *)
(* collapsing, serialisation, heading promotion, space insertion (each     *)
(* once, in this order); no step runs before the input is read; the tree   *)
(* serialised carries all three tree fixes; the output is written at most  *)
(* once, only after all six steps, holds the serialised text with the      *)
(* heading promotion and then the space insertion applied, and is written  *)
(* exactly once in a run that ends normally.                               *)
(***************************************************************************)
C9_PipelineOrder ==
    /\ IsPrefix(steps, ClaimedOrder)
    /\ steps # <<>> => input_read
    /\ md_source # <<>> =>
          md_source[1] =
              [imgs |-> [i \in 1..Len(html_doc.imgs) |-> ProcessImg(html_doc.imgs[i])],
               links |-> ProcessLinks(html_doc.links),
               nodes |-> remove_line_breaks_within_paragraphs(html_doc.nodes)]
    /\ out_writes <= 1
    /\ out_writes = 1 =>
          /\ steps = ClaimedOrder
          /\ out_content = ensure_space_before_links(increase_heading_levels(md_serialized[1]))
    /\ hpc = "done" => out_writes = 1 /\ hexit = 0

C9_Witness ==
    /\ hpc = "done"
    /\ out_writes = 1
    /\ html_doc.imgs # <<>> /\ html_doc.imgs[1].has_src
    /\ html_doc.links # <<>> /\ html_doc.links[1].has_href
    /\ html_doc.nodes # <<>> /\ html_doc.nodes[1].path = <<"p">>
    /\ md_serialized = << <<"#", "a", "\n", "a", "[">> >>
    /\ out_content = <<"#", "#", "a", "\n", "a", " ", "[">>

(***************************************************************************)
(* C10: heading promotion is not idempotent: on a text with a line that    *)
(* starts with '#', the k-th application has prepended k '#' to that line  *)
(* (also past 6) and its result differs from the result before it; a       *)
(* further ensure_space_before_links keeps the '[' of its input and adds   *)
(* no space before a '[' that a space already precedes.                    *)
(***************************************************************************)
C10_Reapplication ==
    /\ \A k \in 1..Len(hd) :
          LET before == IF k = 1 THEN text0 ELSE hd[k - 1]
              old == SplitLines(text0)
              new == SplitLines(hd[k])
          IN  HasHeadingLine(text0) =>
                 /\ HasHeadingLine(before)
                 /\ hd[k] # before
                 /\ Len(new) = Len(old)
                 /\ \A i \in 1..Len(old) :
                       HashPrefix(old[i]) > 0 => new[i] = Hashes(k) \o old[i]
    /\ \A k \in 2..Len(sp) :
          LET old == BracketPositions(sp[k - 1])
              new == BracketPositions(sp[k])
          IN  /\ Len(new) = Len(old)
              /\ \A b \in 1..Len(old) :
                    SpacesBefore(sp[k - 1], old[b]) >= 1 =>
                        SpacesBefore(sp[k], new[b]) = SpacesBefore(sp[k - 1], old[b])

C10_Witness ==
    /\ text0 = <<"#", "a", "[">>
    /\ hd = << <<"#", "#", "a", "[">>, <<"#", "#", "#", "a", "[">> >>
    /\ sp = << <<"#", "a", " ", "[">>, <<"#", "a", " ", "[">> >>

=============================================================================
